---------------------------- MODULE Spec2Model ----------------------------
(***************************************************************************)
(* Model of backend/server.py: the URL validator, the metadata reshaping   *)
(* of POST /api/video-info, and the download handler of POST /api/download *)
(* running its blocking library calls on a ThreadPoolExecutor.             *)
(*                                                                         *)
(* Text is a sequence of one-character strings, so that the regular        *)
(* expression, the substring tests, str.replace, str.isdigit, int() and    *)
(* the f-string formatting are computed character by character.            *)
(* A Python value is a tagged record: PyNone, PyInt(i) or PyStr(s).        *)
(* A dict is a function whose DOMAIN is the set of keys present.           *)
(***************************************************************************)
EXTENDS Integers, Sequences, FiniteSets, TLC

\* ---------------------------------------------------------------- bounds
MaxFormats == 3
MaxRequests == 4
MaxDownloads == 2
MaxChunks == 1

\* ------------------------------------------------------- Python values
PyNone == [t |-> "None"]
PyInt(i) == [t |-> "int", i |-> i]
PyStr(s) == [t |-> "str", s |-> s]

\* a == b on Python values
PyEq(a, b) ==
    /\ a.t = b.t
    /\ (a.t = "int" => a.i = b.i)
    /\ (a.t = "str" => a.s = b.s)

\* d.get(k, default)
Get(d, k, default) == IF k \in DOMAIN d THEN d[k] ELSE default

Digits == {"0", "1", "2", "3", "4", "5", "6", "7", "8", "9"}

DigitChar(d) ==
    CASE d = 0 -> "0" [] d = 1 -> "1" [] d = 2 -> "2" [] d = 3 -> "3"
      [] d = 4 -> "4" [] d = 5 -> "5" [] d = 6 -> "6" [] d = 7 -> "7"
      [] d = 8 -> "8" [] d = 9 -> "9"

DigitVal(c) ==
    CASE c = "0" -> 0 [] c = "1" -> 1 [] c = "2" -> 2 [] c = "3" -> 3
      [] c = "4" -> 4 [] c = "5" -> 5 [] c = "6" -> 6 [] c = "7" -> 7
      [] c = "8" -> 8 [] c = "9" -> 9

RECURSIVE NatToText(_)
NatToText(n) ==
    IF n < 10 THEN <<DigitChar(n)>>
    ELSE NatToText(n \div 10) \o <<DigitChar(n % 10)>>

\* str(i) of an int
IntToText(i) == IF i < 0 THEN <<"-">> \o NatToText(0 - i) ELSE NatToText(i)

\* f"{v}" of a Python value
Format(v) ==
    CASE v.t = "int" -> IntToText(v.i)
      [] v.t = "str" -> v.s
      [] v.t = "None" -> <<"N","o","n","e">>

\* s.replace(c, '')
RECURSIVE Remove(_, _)
Remove(s, c) ==
    IF s = << >> THEN << >>
    ELSE IF Head(s) = c THEN Remove(Tail(s), c)
    ELSE <<Head(s)>> \o Remove(Tail(s), c)

\* s.isdigit()
isdigit(s) == Len(s) > 0 /\ \A i \in 1..Len(s) : s[i] \in Digits

\* int(s) of a digit string
RECURSIVE int(_)
int(s) ==
    IF s = << >> THEN 0
    ELSE 10 * int(SubSeq(s, 1, Len(s) - 1)) + DigitVal(s[Len(s)])

\* ------------------------------------------------------- URL validator
\* A regular expression is run as the set of offsets its prefix can have
\* consumed, which covers every backtracking choice of re.match.
HasAt(s, p, lit) ==
    /\ p + Len(lit) <= Len(s)
    /\ \A i \in 1..Len(lit) : s[p + i] = lit[i]

Lit(s, P, lit) == { p + Len(lit) : p \in { q \in P : HasAt(s, q, lit) } }

\* .+  (any characters but a newline, at least one)
AnyPlus(s, P) ==
    { q \in 1..Len(s) : \E p \in P : p < q /\ \A i \in (p + 1)..q : s[i] # "\n" }

\* [^...]{n}
NotInClass(s, P, excl, n) ==
    { p + n : p \in { q \in P : q + n <= Len(s)
                                 /\ \A i \in 1..n : s[q + i] \notin excl } }

VideoIdLen == 11

youtube_regex(url) ==
    LET p0 == {0}
        http == Lit(url, p0, <<"h","t","t","p">>)
        scheme == Lit(url, http \cup Lit(url, http, <<"s">>), <<":","/","/">>)
        p1 == p0 \cup scheme
        p2 == p1 \cup Lit(url, p1, <<"w","w","w",".">>)
        p3 == Lit(url, p2, <<"y","o","u","t","u","b","e">>) \cup Lit(url, p2, <<"y","o","u","t","u">>)
                \cup Lit(url, p2, <<"y","o","u","t","u","b","e","-","n","o","c","o","o","k","i","e">>)
        p4 == Lit(url, p3, <<".">>)
        p5 == Lit(url, p4, <<"c","o","m">>) \cup Lit(url, p4, <<"b","e">>)
        p6 == Lit(url, p5, <<"/">>)
        p7 == p6 \cup Lit(url, p6, <<"w","a","t","c","h","?","v","=">>) \cup Lit(url, p6, <<"e","m","b","e","d","/">>)
                \cup Lit(url, p6, <<"v","/">>)
                \cup Lit(url, AnyPlus(url, p6), <<"?","v","=">>)
    IN  NotInClass(url, p7, {"&", "=", "%", "?"}, VideoIdLen)

is_valid_youtube_url(url) == youtube_regex(url) # {}

\* ------------------------------------------------- error classification
\* sub in s
Contains(s, sub) == \E p \in 0..(Len(s) - Len(sub)) : HasAt(s, p, sub)

HTTPException(status_code, detail) ==
    [ok |-> FALSE, status |-> status_code, detail |-> detail]

\* str(e) of an HTTPException
StrHTTPException(e) == IntToText(e.status) \o <<":"," ">> \o e.detail

DownloadErrorResponse_all500(error_msg) ==
    HTTPException(500, <<"U","n","e","x","p","e","c","t","e","d"," ","e","r","r","o","r",":"," ">> \o error_msg)

\* the except yt_dlp.utils.DownloadError clause
DownloadErrorResponse(error_msg) ==
    IF Contains(error_msg, <<"V","i","d","e","o"," ","u","n","a","v","a","i","l","a","b","l","e">>) \/ Contains(error_msg, <<"n","o","t"," ","a","v","a","i","l","a","b","l","e">>)
    THEN HTTPException(404, <<"V","i","d","e","o"," ","n","o","t"," ","f","o","u","n","d"," ","o","r"," ","u","n","a","v","a","i","l","a","b","l","e">>)
    ELSE IF Contains(error_msg, <<"P","r","i","v","a","t","e"," ","v","i","d","e","o">>)
    THEN HTTPException(403, <<"V","i","d","e","o"," ","i","s"," ","p","r","i","v","a","t","e">>)
    ELSE IF Contains(error_msg, <<"T","h","i","s"," ","v","i","d","e","o"," ","i","s"," ","n","o","t"," ","a","v","a","i","l","a","b","l","e">>)
    THEN HTTPException(404, <<"V","i","d","e","o"," ","n","o","t"," ","a","v","a","i","l","a","b","l","e">>)
    ELSE HTTPException(400, <<"E","r","r","o","r"," ","e","x","t","r","a","c","t","i","n","g"," ","v","i","d","e","o"," ","i","n","f","o",":"," ">> \o error_msg)

\* the except Exception clause
UnexpectedError(msg) == HTTPException(500, <<"U","n","e","x","p","e","c","t","e","d"," ","e","r","r","o","r",":"," ">> \o msg)

\* The body of the try block of extract_video_info, given what
\* ydl.extract_info did: returned a dict ("info"), returned None or {}
\* ("falsy"), raised DownloadError, or raised another exception.
\* The HTTPException raised for a falsy result is raised inside the try
\* block and HTTPException is a subclass of Exception, so the
\* except Exception clause catches it.
ExtractOutcome(lib) ==
    CASE lib.kind = "info" -> [ok |-> TRUE, info |-> lib.info]
      [] lib.kind = "falsy" ->
            UnexpectedError(StrHTTPException(
                HTTPException(404, <<"V","i","d","e","o"," ","n","o","t"," ","f","o","u","n","d"," ","o","r"," ","u","n","a","v","a","i","l","a","b","l","e">>)))
      [] lib.kind = "DownloadError" -> DownloadErrorResponse(lib.msg)
      [] lib.kind = "Exception" -> UnexpectedError(lib.msg)

InvalidUrl == HTTPException(400, <<"I","n","v","a","l","i","d"," ","Y","o","u","T","u","b","e"," ","U","R","L"," ","f","o","r","m","a","t">>)

extract_video_info_novalidate(url, lib) ==
    [r |-> ExtractOutcome(lib), called |-> TRUE]

\* extract_video_info(url): r is what it returns or raises, called tells
\* whether ydl.extract_info was reached (lines 73-74 come before it)
extract_video_info(url, lib) ==
    IF ~is_valid_youtube_url(url)
    THEN [r |-> InvalidUrl, called |-> FALSE]
    ELSE [r |-> ExtractOutcome(lib), called |-> TRUE]

\* ----------------------------------------------------- format reshaping
\* fmt.get('vcodec') != 'none' and fmt.get('acodec') != 'none'
IsKept(fmt) ==
    /\ ~PyEq(Get(fmt, "vcodec", PyNone), PyStr(<<"n","o","n","e">>))
    /\ ~PyEq(Get(fmt, "acodec", PyNone), PyStr(<<"n","o","n","e">>))

\* quality_str of one entry
quality_str(fmt) ==
    LET quality == Get(fmt, "height", PyStr(<<"U","n","k","n","o","w","n">>))
    IN  IF ~PyEq(quality, PyStr(<<"U","n","k","n","o","w","n">>))
        THEN PyStr(Format(quality) \o <<"p">>)
        ELSE Get(fmt, "format_note", PyStr(<<"U","n","k","n","o","w","n">>))

\* VideoFormat(...); src is the index of the library entry it was built
\* from (history only, not a field of the response)
VideoFormat(fmt, i) ==
    [format_id |-> fmt["format_id"],
     ext |-> Get(fmt, "ext", PyStr(<<"m","p","4">>)),
     quality |-> quality_str(fmt),
     filesize |-> Get(fmt, "filesize", PyNone),
     format_note |-> Get(fmt, "format_note", PyNone),
     src |-> i]

\* pydantic validation of a VideoFormat: the str fields must be str
ValidVideoFormat(vf) ==
    /\ vf.format_id.t = "str"
    /\ vf.ext.t = "str"
    /\ vf.quality.t = "str"
    /\ vf.filesize.t \in {"int", "None"}
    /\ vf.format_note.t \in {"str", "None"}

\* the loop over info['formats']
RECURSIVE CollectFormats(_, _)
CollectFormats(fmts, n) ==
    IF n = 0 THEN << >>
    ELSE IF IsKept(fmts[n])
         THEN Append(CollectFormats(fmts, n - 1), VideoFormat(fmts[n], n))
         ELSE CollectFormats(fmts, n - 1)

\* the sort key of line 146
SortKey(vf) ==
    LET q == Remove(vf.quality.s, "p")
    IN  IF isdigit(q) THEN int(q) ELSE 0

\* insert x behind every element whose key is >= its own
RECURSIVE InsertDesc(_, _)
InsertDesc(sorted, x) ==
    IF sorted = << >> THEN <<x>>
    ELSE IF SortKey(Head(sorted)) >= SortKey(x)
         THEN <<Head(sorted)>> \o InsertDesc(Tail(sorted), x)
         ELSE <<x>> \o sorted

\* formats.sort(key=..., reverse=True): stable, descending
RECURSIVE SortFormats(_)
SortFormats(fs) ==
    IF fs = << >> THEN << >>
    ELSE InsertDesc(SortFormats(SubSeq(fs, 1, Len(fs) - 1)), fs[Len(fs)])

sort_unsorted(formats) == formats

\* line 146 as called by the handler
sort(formats) == SortFormats(formats)

ValidationError == UnexpectedError(<<"v","a","l","i","d","a","t","i","o","n"," ","e","r","r","o","r">>)

\* get_video_info after the awaited extract_video_info produced r
Reshape(url, r) ==
    IF ~r.ok THEN r
    ELSE
      LET info == r.info
          formats == IF "formats" \in DOMAIN info
                     THEN CollectFormats(info["formats"], Len(info["formats"]))
                     ELSE << >>
          title == Get(info, "title", PyStr(<<"U","n","k","n","o","w","n">>))
      IN  IF \E i \in 1..Len(formats) : ~ValidVideoFormat(formats[i])
          THEN ValidationError
          ELSE IF title.t # "str" THEN ValidationError
          ELSE [ok |-> TRUE, status |-> 200,
                body |-> [title |-> title, formats |-> sort(formats), url |-> url]]

\* POST /api/video-info
get_video_info(url, lib) == Reshape(url, extract_video_info(url, lib).r)

\* ------------------------------------------------------------- inputs
Urls ==
    { <<"h","t","t","p","s",":","/","/","w","w","w",".","y","o","u","t","u","b","e",".","c","o","m","/","w","a","t","c","h","?","v","=","d","Q","w","4","w","9","W","g","X","c","Q">>,
      <<"h","t","t","p","s",":","/","/","w","w","w",".","y","o","u","t","u","b","e",".","c","o","m","/","i","n","v","a","l","i","d","_","u","r","l">>,
      <<"h","t","t","p","s",":","/","/","w","w","w",".","e","x","a","m","p","l","e",".","c","o","m">>,
      <<"y","o","u","t","u",".","b","e","/","d","Q","w","4","w","9","W","g","X","c","Q">>,
      <<"h","t","t","p",":","/","/","y","o","u","t","u","b","e","-","n","o","c","o","o","k","i","e",".","c","o","m","/","e","m","b","e","d","/","d","Q","w","4","w","9","W","g","X","c","Q">>,
      <<"h","t","t","p","s",":","/","/","w","w","w",".","y","o","u","t","u","b","e",".","c","o","m","/","w","a","t","c","h","?","v","=","s","h","o","r","t">>,
      <<"f","t","p",":","/","/","y","o","u","t","u","b","e",".","c","o","m","/","w","a","t","c","h","?","v","=","d","Q","w","4","w","9","W","g","X","c","Q">>,
      <<"h","t","t","p","s",":","/","/","w","w","w",".","y","o","u","t","u","b","e",".","c","o","m","/","p","l","a","y","l","i","s","t","?","v","=","d","Q","w","4","w","9","W","g","X","c","Q">>,
      <<"h","t","t","p","s",":","/","/","v","i","m","e","o",".","c","o","m","/","1","2","3","4","5","6","7","8","9","0","1">>,
      << >> }

ErrorMessages ==
    { <<"E","R","R","O","R",":"," ","V","i","d","e","o"," ","u","n","a","v","a","i","l","a","b","l","e">>,
      <<"E","R","R","O","R",":"," ","P","r","i","v","a","t","e"," ","v","i","d","e","o","."," ","S","i","g","n"," ","i","n">>,
      <<"T","h","i","s"," ","v","i","d","e","o"," ","i","s"," ","n","o","t"," ","a","v","a","i","l","a","b","l","e">>,
      <<"P","r","i","v","a","t","e"," ","v","i","d","e","o",":"," ","V","i","d","e","o"," ","u","n","a","v","a","i","l","a","b","l","e">>,
      <<"P","r","i","v","a","t","e"," ","v","i","d","e","o"," ","i","s"," ","n","o","t"," ","a","v","a","i","l","a","b","l","e">>,
      <<"U","n","s","u","p","p","o","r","t","e","d"," ","U","R","L">>,
      <<"S","i","g","n"," ","i","n"," ","t","o"," ","c","o","n","f","i","r","m"," ","y","o","u","r"," ","a","g","e">> }

Avc == PyStr(<<"a","v","c","1">>)
Mp4a == PyStr(<<"m","p","4","a">>)
NoCodec == PyStr(<<"n","o","n","e">>)

\* entries of info['formats'] as the library may return them
LibFormats ==
    { [format_id |-> PyStr(<<"2","2">>), ext |-> PyStr(<<"m","p","4">>), vcodec |-> Avc,
       acodec |-> Mp4a, height |-> PyInt(720), format_note |-> PyStr(<<"7","2","0","p">>),
       filesize |-> PyInt(5)],
      [format_id |-> PyStr(<<"1","8">>), vcodec |-> Avc, acodec |-> Mp4a,
       height |-> PyInt(360), format_note |-> PyNone],
      [format_id |-> PyStr(<<"1","3","7">>), ext |-> PyStr(<<"m","p","4">>), vcodec |-> Avc,
       acodec |-> NoCodec, height |-> PyInt(1080)],
      [format_id |-> PyStr(<<"1","4","0">>), ext |-> PyStr(<<"m","4","a">>), vcodec |-> NoCodec,
       acodec |-> Mp4a, format_note |-> PyStr(<<"m","e","d","i","u","m">>)],
      [format_id |-> PyStr(<<"h","l","s">>), ext |-> PyStr(<<"m","p","4">>),
       format_note |-> PyStr(<<"m","e","d","i","u","m">>)],
      [format_id |-> PyStr(<<"1","7">>), vcodec |-> Avc, acodec |-> Mp4a,
       height |-> PyNone, format_note |-> PyStr(<<"l","o","w">>)],
      [format_id |-> PyStr(<<"0">>), vcodec |-> Avc, acodec |-> Mp4a,
       height |-> PyInt(0)],
      [format_id |-> PyStr(<<"2","9","8">>), vcodec |-> Avc, acodec |-> Mp4a,
       format_note |-> PyStr(<<"7","2","0","p","6","0">>)],
      [format_id |-> PyStr(<<"u">>), vcodec |-> Avc, acodec |-> Mp4a],
      [format_id |-> PyStr(<<"n">>), vcodec |-> Avc, acodec |-> Mp4a,
       format_note |-> PyNone] }

SeqsUpTo(T, n) == UNION { [1..k -> T] : k \in 0..n }

LibInfos ==
    { [title |-> PyStr(<<"T">>), formats |-> fs] : fs \in SeqsUpTo(LibFormats, MaxFormats) }
      \cup { [title |-> PyStr(<<"T">>)], [formats |-> << >>], [title |-> PyNone] }

\* what ydl.extract_info(url, download=False) may do
LibOutcomes ==
    { [kind |-> "info", info |-> i] : i \in LibInfos }
      \cup { [kind |-> "falsy"] }
      \cup { [kind |-> "DownloadError", msg |-> m] : m \in ErrorMessages }
      \cup { [kind |-> "Exception", msg |-> <<"b","o","o","m">>] }


\* ------------------------------------------------------- worker pool
\* ThreadPoolExecutor(max_workers=3)
max_workers == 3

Requests == 1..MaxRequests

\* inputs of the requests that share the pool
PoolUrls == { <<"y","o","u","t","u",".","b","e","/","d","Q","w","4","w","9","W","g","X","c","Q">> }

PoolLibOutcomes ==
    { [kind |-> "info",
       info |-> [title |-> PyStr(<<"T">>),
                 formats |-> << [format_id |-> PyStr(<<"1","8">>), vcodec |-> Avc,
                                 acodec |-> Mp4a, height |-> PyInt(360)] >>]] }

\* the format the library can fetch, and one it cannot
AvailableFormats == { "18" }
DownloadInputs ==
    { [url |-> <<"y","o","u","t","u",".","b","e","/","d","Q","w","4","w","9","W","g","X","c","Q">>, format_id |-> f] : f \in {"18", "invalid_format_id"} }

DownloadErrorMessages == { <<"R","e","q","u","e","s","t","e","d"," ","f","o","r","m","a","t"," ","i","s"," ","n","o","t"," ","a","v","a","i","l","a","b","l","e">> }

\* the file name yt-dlp derives from the template %(title)s.%(ext)s
OutputName(input) == "T.mp4"

\* -------------------------------------------------------------- state
VARIABLES
    info_pc,      \* the info request: "idle", "submitted", "done"
    url,          \* request.url of the info request
    lib,          \* what ydl.extract_info did for it (NotCalled if not reached)
    lib_calls,    \* number of ydl.extract_info invocations
    response,     \* the response of the info request
    pc,           \* per request: "idle", "queued", "running", "returned",
                  \*              "streaming", "done"
    kind,         \* per request: "none", "info", "download"
    input,        \* per request: the request body
    tmpdir,       \* per request: temp_dir of a download (0: none)
    libout,       \* per request: what the library call did
    resp,         \* per request: the response (status, headers)
    body,         \* per request: the chunks the client has received
    queue,        \* work items of the executor not yet taken by a worker
    fs            \* the temporary directories: fs[d] maps file name to content,
                  \* a content being the sequence of its chunks, each chunk
                  \* tagged with the request whose library call wrote it

info_vars == <<info_pc, url, lib, lib_calls, response>>

pool_vars == <<pc, kind, input, tmpdir, libout, resp, body, queue, fs>>

vars == <<info_pc, url, lib, lib_calls, response,
          pc, kind, input, tmpdir, libout, resp, body, queue, fs>>

NotCalled == [kind |-> "uncalled"]
Pending == [kind |-> "pending"]
NoResponse == [ok |-> FALSE, status |-> 0, detail |-> << >>]
NoInput == [url |-> << >>]

PoolIdle ==
    /\ pc = [r \in Requests |-> "idle"]
    /\ kind = [r \in Requests |-> "none"]
    /\ input = [r \in Requests |-> NoInput]
    /\ tmpdir = [r \in Requests |-> 0]
    /\ libout = [r \in Requests |-> Pending]
    /\ resp = [r \in Requests |-> NoResponse]
    /\ body = [r \in Requests |-> << >>]
    /\ queue = << >>
    /\ fs = << >>

InfoIdle ==
    /\ info_pc = "idle"
    /\ url = << >>
    /\ lib = NotCalled
    /\ lib_calls = 0
    /\ response = NoResponse

\* ------------------------------------------- POST /api/video-info alone
InfoInit == InfoIdle /\ PoolIdle

\* a request arrives and the handler submits extract_video_info to the pool
InfoRequest(u) ==
    /\ info_pc = "idle"
    /\ info_pc' = "submitted"
    /\ url' = u
    /\ UNCHANGED <<lib, lib_calls, response>>
    /\ UNCHANGED pool_vars

\* the worker runs extract_video_info and the handler builds the response
InfoRun(l) ==
    /\ info_pc = "submitted"
    /\ LET e == extract_video_info(url, l)
       IN  /\ lib' = IF e.called THEN l ELSE NotCalled
           /\ lib_calls' = IF e.called THEN lib_calls + 1 ELSE lib_calls
           /\ response' = Reshape(url, e.r)
    /\ info_pc' = "done"
    /\ UNCHANGED url
    /\ UNCHANGED pool_vars

InfoNext ==
    \/ \E u \in Urls : InfoRequest(u)
    \/ \E l \in LibOutcomes : InfoRun(l)

SpecInfo == InfoInit /\ [][InfoNext]_vars

\* ------------------------------- concurrent requests on the worker pool
Init == InfoIdle /\ PoolIdle

\* requests are numbered in order of arrival
NextToArrive(r) == pc[r] = "idle" /\ \A q \in Requests : q < r => pc[q] # "idle"

\* the requests whose library call occupies a worker thread
Running == { r \in Requests : pc[r] = "running" }

WorkerFree_unbounded == TRUE

\* a worker thread exists or may be created for the next work item
WorkerFree == Cardinality(Running) < max_workers

mkdtemp_shared(dirs) == 1

\* tempfile.mkdtemp(): a directory that did not exist before
mkdtemp(dirs) == Len(dirs) + 1

listdir(d) == DOMAIN fs[d]

getsize_plus(d, name) == Len(fs[d][name]) + 1

\* os.path.getsize
getsize(d, name) == Len(fs[d][name])

\* get_video_info up to its await
AcceptInfo(r, u) ==
    /\ NextToArrive(r)
    /\ kind' = [kind EXCEPT ![r] = "info"]
    /\ input' = [input EXCEPT ![r] = [url |-> u]]
    /\ queue' = Append(queue, r)
    /\ pc' = [pc EXCEPT ![r] = "queued"]
    /\ UNCHANGED <<tmpdir, libout, resp, body, fs>>
    /\ UNCHANGED info_vars

\* download_video_endpoint up to its await
AcceptDownload(r, d) ==
    /\ NextToArrive(r)
    /\ Cardinality({ q \in Requests : kind[q] = "download" }) < MaxDownloads
    /\ LET temp_dir == mkdtemp(fs)
       IN  /\ tmpdir' = [tmpdir EXCEPT ![r] = temp_dir]
           /\ fs' = IF temp_dir > Len(fs) THEN Append(fs, << >>) ELSE fs
    /\ kind' = [kind EXCEPT ![r] = "download"]
    /\ input' = [input EXCEPT ![r] = d]
    /\ queue' = Append(queue, r)
    /\ pc' = [pc EXCEPT ![r] = "queued"]
    /\ UNCHANGED <<libout, resp, body>>
    /\ UNCHANGED info_vars

\* a worker thread takes the oldest work item
WorkerStart ==
    /\ queue # << >>
    /\ WorkerFree
    /\ pc' = [pc EXCEPT ![Head(queue)] = "running"]
    /\ queue' = Tail(queue)
    /\ UNCHANGED <<kind, input, tmpdir, libout, resp, body, fs>>
    /\ UNCHANGED info_vars

\* extract_video_info finishes in its worker
InfoWork(r, l) ==
    /\ pc[r] = "running" /\ kind[r] = "info"
    /\ LET e == extract_video_info(input[r].url, l)
       IN  libout' = [libout EXCEPT ![r] = IF e.called THEN l ELSE NotCalled]
    /\ pc' = [pc EXCEPT ![r] = "returned"]
    /\ UNCHANGED <<kind, input, tmpdir, resp, body, queue, fs>>
    /\ UNCHANGED info_vars

\* ydl.download writes one more chunk of the output file
LibWrite(r) ==
    /\ pc[r] = "running" /\ kind[r] = "download"
    /\ input[r].format_id \in AvailableFormats
    /\ LET d == tmpdir[r]
           n == OutputName(input[r])
           old == IF n \in DOMAIN fs[d] THEN fs[d][n] ELSE << >>
       IN  /\ Len(SelectSeq(old, LAMBDA w : w = r)) < MaxChunks
           /\ fs' = [fs EXCEPT ![d] = (n :> Append(old, r)) @@ fs[d]]
    /\ UNCHANGED <<pc, kind, input, tmpdir, libout, resp, body, queue>>
    /\ UNCHANGED info_vars

\* ydl.download returns
LibReturn(r) ==
    /\ pc[r] = "running" /\ kind[r] = "download"
    /\ input[r].format_id \in AvailableFormats
    /\ libout' = [libout EXCEPT ![r] = [kind |-> "returned"]]
    /\ pc' = [pc EXCEPT ![r] = "returned"]
    /\ UNCHANGED <<kind, input, tmpdir, resp, body, queue, fs>>
    /\ UNCHANGED info_vars

\* ydl.download raises
LibRaise(r, m) ==
    /\ pc[r] = "running" /\ kind[r] = "download"
    /\ libout' = [libout EXCEPT ![r] = [kind |-> "raised", msg |-> m]]
    /\ pc' = [pc EXCEPT ![r] = "returned"]
    /\ UNCHANGED <<kind, input, tmpdir, resp, body, queue, fs>>
    /\ UNCHANGED info_vars

download_video_swallow(out, output_dir) == [ok |-> TRUE, output_dir |-> output_dir]

\* download_video: the result of the work item
download_video(out, output_dir) ==
    IF out.kind = "raised"
    THEN HTTPException(500, <<"E","r","r","o","r"," ","d","o","w","n","l","o","a","d","i","n","g"," ","v","i","d","e","o",":"," ">> \o out.msg)
    ELSE [ok |-> TRUE, output_dir |-> output_dir]

\* get_video_info after its await
InfoResume(r) ==
    /\ pc[r] = "returned" /\ kind[r] = "info"
    /\ resp' = [resp EXCEPT ![r] =
                  Reshape(input[r].url,
                          IF libout[r] = NotCalled THEN InvalidUrl
                          ELSE ExtractOutcome(libout[r]))]
    /\ pc' = [pc EXCEPT ![r] = "done"]
    /\ UNCHANGED <<kind, input, tmpdir, libout, body, queue, fs>>
    /\ UNCHANGED info_vars

\* download_video_endpoint after its await, the work item having raised
\* or left the directory empty
DownloadFail(r) ==
    /\ pc[r] = "returned" /\ kind[r] = "download"
    /\ LET downloaded_file == download_video(libout[r], tmpdir[r])
       IN  \/ /\ ~downloaded_file.ok
              /\ resp' = [resp EXCEPT ![r] = downloaded_file]
           \/ /\ downloaded_file.ok
              /\ listdir(tmpdir[r]) = {}
              /\ resp' = [resp EXCEPT ![r] =
                            HTTPException(500, <<"D","o","w","n","l","o","a","d"," ","f","a","i","l","e","d"," ","-"," ","n","o"," ","f","i","l","e"," ","c","r","e","a","t","e","d">>)]
    /\ pc' = [pc EXCEPT ![r] = "done"]
    /\ UNCHANGED <<kind, input, tmpdir, libout, body, queue, fs>>
    /\ UNCHANGED info_vars

\* download_video_endpoint after its await, up to returning the
\* StreamingResponse; files[0] is any entry, os.listdir has no order
DownloadRespond(r) ==
    /\ pc[r] = "returned" /\ kind[r] = "download"
    /\ download_video(libout[r], tmpdir[r]).ok
    /\ \E name \in listdir(tmpdir[r]) :
          LET file_size == getsize(tmpdir[r], name)
          IN  resp' = [resp EXCEPT ![r] =
                  [ok |-> TRUE, status |-> 200,
                   actual_file |-> <<tmpdir[r], name>>,
                   headers |-> [content_disposition |-> name,
                                content_length |-> IntToText(file_size)]]]
    /\ pc' = [pc EXCEPT ![r] = "streaming"]
    /\ UNCHANGED <<kind, input, tmpdir, libout, body, queue, fs>>
    /\ UNCHANGED info_vars

FileOf(r) == fs[resp[r].actual_file[1]][resp[r].actual_file[2]]

\* iterfile yields the next chunk of the file
StreamChunk(r) ==
    /\ pc[r] = "streaming"
    /\ Len(body[r]) < Len(FileOf(r))
    /\ body' = [body EXCEPT ![r] = Append(@, FileOf(r)[Len(@) + 1])]
    /\ UNCHANGED <<pc, kind, input, tmpdir, libout, resp, queue, fs>>
    /\ UNCHANGED info_vars

\* iterfile reaches the end of the file
StreamEnd(r) ==
    /\ pc[r] = "streaming"
    /\ Len(body[r]) >= Len(FileOf(r))
    /\ pc' = [pc EXCEPT ![r] = "done"]
    /\ UNCHANGED <<kind, input, tmpdir, libout, resp, body, queue, fs>>
    /\ UNCHANGED info_vars

Next ==
    \/ \E r \in Requests, u \in PoolUrls : AcceptInfo(r, u)
    \/ \E r \in Requests, d \in DownloadInputs : AcceptDownload(r, d)
    \/ WorkerStart
    \/ \E r \in Requests, l \in PoolLibOutcomes : InfoWork(r, l)
    \/ \E r \in Requests : LibWrite(r)
    \/ \E r \in Requests : LibReturn(r)
    \/ \E r \in Requests, m \in DownloadErrorMessages : LibRaise(r, m)
    \/ \E r \in Requests : InfoResume(r)
    \/ \E r \in Requests : DownloadFail(r)
    \/ \E r \in Requests : DownloadRespond(r)
    \/ \E r \in Requests : StreamChunk(r)
    \/ \E r \in Requests : StreamEnd(r)

Spec == Init /\ [][Next]_vars


\* ================================================================ claims
Done200 == info_pc = "done" /\ response.status = 200

\* the label counts as numeric when line 146 can read it as an integer
Numeric(vf) == isdigit(Remove(vf.quality.s, "p"))
NumericPart(vf) == int(Remove(vf.quality.s, "p"))

\* C1: a request to /api/video-info whose url does not match the pattern
\* gets 400 'Invalid YouTube URL format' and ydl.extract_info is never
\* invoked for it.
C1_InvalidUrlRejected ==
    (info_pc # "idle" /\ youtube_regex(url) = {}) =>
        /\ lib_calls = 0
        /\ lib = NotCalled
        /\ info_pc = "done" =>
              /\ response.status = 400
              /\ response.status >= 400
              /\ response.detail = <<"I","n","v","a","l","i","d"," ","Y","o","u","T","u","b","e"," ","U","R","L"," ","f","o","r","m","a","t">>

C1_Witness ==
    /\ info_pc = "done" /\ youtube_regex(url) = {} /\ Len(url) > 0
    /\ response.status = 400 /\ lib_calls = 0

\* C2 as stated: in a successful info response formats is in descending
\* order of the numeric part of the quality label and every non-numeric
\* label comes after every numeric one.
C2_NonNumericAfterAllNumeric ==
    Done200 =>
        LET f == response.body.formats
        IN  /\ \A i, j \in 1..Len(f) : i < j => SortKey(f[i]) >= SortKey(f[j])
            /\ \A i, j \in 1..Len(f) :
                  (~Numeric(f[i]) /\ Numeric(f[j])) => j < i

\* C2 amended: in a successful info response formats is in descending order
\* of the numeric part of the quality label, a non-numeric label counting
\* as zero; every non-numeric label comes after every numeric label whose
\* value is greater than zero; entries of equal rank keep the order the
\* library gave them.
C2_SortedDescending ==
    Done200 =>
        LET f == response.body.formats
        IN  /\ \A i, j \in 1..Len(f) : i < j => SortKey(f[i]) >= SortKey(f[j])
            /\ \A i, j \in 1..Len(f) :
                  (~Numeric(f[i]) /\ Numeric(f[j]) /\ NumericPart(f[j]) > 0) => j < i
            /\ \A i, j \in 1..Len(f) :
                  (i < j /\ SortKey(f[i]) = SortKey(f[j])) => f[i].src < f[j].src

C2_Witness ==
    /\ Done200
    /\ LET f == response.body.formats
       IN  /\ Len(f) = 3
           /\ Numeric(f[1]) /\ NumericPart(f[1]) > 0 /\ f[1].src = 3
           /\ ~Numeric(f[2])
           /\ Numeric(f[3]) /\ NumericPart(f[3]) = 0

\* C3 as stated: on a DownloadError, every message containing
\* "Private video" gives 403, every message containing "Video unavailable",
\* "not available" or "This video is not available" gives 404, any other
\* gives 400, and none gives 500.
C3_EveryPrivateMessageIs403 ==
    (info_pc = "done" /\ lib.kind = "DownloadError") =>
        LET unavailable == \/ Contains(lib.msg, <<"V","i","d","e","o"," ","u","n","a","v","a","i","l","a","b","l","e">>)
                           \/ Contains(lib.msg, <<"n","o","t"," ","a","v","a","i","l","a","b","l","e">>)
                           \/ Contains(lib.msg, <<"T","h","i","s"," ","v","i","d","e","o"," ","i","s"," ","n","o","t"," ","a","v","a","i","l","a","b","l","e">>)
            private == Contains(lib.msg, <<"P","r","i","v","a","t","e"," ","v","i","d","e","o">>)
        IN  /\ private => response.status = 403
            /\ unavailable => response.status = 404
            /\ (~private /\ ~unavailable) => response.status = 400
            /\ response.status # 500

\* C3 amended: on a DownloadError, every message containing
\* "Video unavailable" or "not available" (hence also "This video is not
\* available") gives 404, every other message containing "Private video"
\* gives 403, any other message gives 400, and none gives 500.
C3_DownloadErrorStatus ==
    (info_pc = "done" /\ lib.kind = "DownloadError") =>
        LET unavailable == \/ Contains(lib.msg, <<"V","i","d","e","o"," ","u","n","a","v","a","i","l","a","b","l","e">>)
                           \/ Contains(lib.msg, <<"n","o","t"," ","a","v","a","i","l","a","b","l","e">>)
                           \/ Contains(lib.msg, <<"T","h","i","s"," ","v","i","d","e","o"," ","i","s"," ","n","o","t"," ","a","v","a","i","l","a","b","l","e">>)
            private == Contains(lib.msg, <<"P","r","i","v","a","t","e"," ","v","i","d","e","o">>)
        IN  /\ unavailable => response.status = 404
            /\ (private /\ ~unavailable) => response.status = 403
            /\ (~private /\ ~unavailable) =>
                  /\ response.status = 400
                  /\ response.detail = <<"E","r","r","o","r"," ","e","x","t","r","a","c","t","i","n","g"," ","v","i","d","e","o"," ","i","n","f","o",":"," ">> \o lib.msg
            /\ response.status # 500

C3_Witness ==
    /\ info_pc = "done" /\ lib.kind = "DownloadError"
    /\ Contains(lib.msg, <<"P","r","i","v","a","t","e"," ","v","i","d","e","o">>)
    /\ Contains(lib.msg, <<"n","o","t"," ","a","v","a","i","l","a","b","l","e">>)
    /\ response.status = 404

\* C4: when the library returns a missing or empty result for a validated
\* URL, the info endpoint responds with status 404.
C4_EmptyResultIsNotFound ==
    (info_pc = "done" /\ lib.kind = "falsy") => response.status = 404

\* a combined-stream candidate in the words of the claim
C8_Candidate(fmt) ==
    /\ "vcodec" \in DOMAIN fmt /\ fmt["vcodec"].t = "str"
    /\ fmt["vcodec"].s # <<"n","o","n","e">> /\ fmt["vcodec"].s # << >>
    /\ "acodec" \in DOMAIN fmt /\ fmt["acodec"].t = "str"
    /\ fmt["acodec"].s # <<"n","o","n","e">> /\ fmt["acodec"].s # << >>

\* C8: in a successful info response a library entry appears in formats if
\* and only if it has a video codec and an audio codec, both present and
\* other than "none"; the number of kept entries is the number of such
\* entries.
C8_KeptIffCombined ==
    (Done200 /\ "formats" \in DOMAIN lib.info) =>
        LET entries == lib.info["formats"]
            f == response.body.formats
        IN  /\ \A i \in 1..Len(entries) :
                  (\E k \in 1..Len(f) : f[k].src = i) <=> C8_Candidate(entries[i])
            /\ Len(f) = Cardinality({ i \in 1..Len(entries) : C8_Candidate(entries[i]) })

\* the label the claim prescribes for an entry
C9_Label(fmt) ==
    IF "height" \in DOMAIN fmt /\ fmt["height"].t = "int"
    THEN IntToText(fmt["height"].i) \o <<"p">>
    ELSE IF "format_note" \in DOMAIN fmt /\ fmt["format_note"].t = "str"
            /\ fmt["format_note"].s # << >>
         THEN fmt["format_note"].s
         ELSE <<"U","n","k","n","o","w","n">>

\* C9: for every kept entry the quality label is "<height>p" exactly when
\* the entry has a numeric height, else its quality note when present, else
\* "Unknown"; it is never built from an absent or null height and is never
\* empty.
C9_QualityLabel ==
    (Done200 /\ "formats" \in DOMAIN lib.info) =>
        LET f == response.body.formats
        IN  \A k \in 1..Len(f) :
              /\ f[k].quality.s = C9_Label(lib.info["formats"][f[k].src])
              /\ Len(f[k].quality.s) > 0

Responded(r) == pc[r] \in {"streaming", "done"}

\* C5: for every download answered with 200 the Content-Length header is
\* the number of chunks the body produces, whatever the other requests do;
\* the body is produced once, front to back, from the file found in the
\* request's own temporary directory, and ends.
C5_ContentLengthIsBodyLength ==
    \A r \in Requests :
        (kind[r] = "download" /\ Responded(r) /\ resp[r].status = 200) =>
            /\ resp[r].actual_file[1] = tmpdir[r]
            /\ resp[r].actual_file[2] \in listdir(tmpdir[r])
            /\ Len(body[r]) <= int(resp[r].headers.content_length)
            /\ body[r] = SubSeq(FileOf(r), 1, Len(body[r]))
            /\ pc[r] = "done" =>
                  /\ int(resp[r].headers.content_length) = Len(body[r])
                  /\ body[r] = FileOf(r)

C5_Witness ==
    \E r, q \in Requests :
        /\ r # q
        /\ kind[r] = "download" /\ pc[r] = "done" /\ resp[r].status = 200
        /\ Len(body[r]) >= 1
        /\ kind[q] = "download" /\ pc[q] = "running"
        /\ listdir(tmpdir[q]) # {}

\* C6: concurrent downloads have pairwise distinct temporary directories,
\* a library call writes only into the directory of its own request, and
\* the file a request lists, sizes and streams was written by its own
\* library call.
C6_DownloadsIsolated ==
    /\ \A r, q \in Requests :
          (r # q /\ kind[r] = "download" /\ kind[q] = "download") =>
              tmpdir[r] # tmpdir[q]
    /\ \A d \in 1..Len(fs) : \A n \in DOMAIN fs[d] : \A i \in 1..Len(fs[d][n]) :
          tmpdir[fs[d][n][i]] = d
    /\ \A r \in Requests :
          (kind[r] = "download" /\ Responded(r) /\ resp[r].status = 200) =>
              /\ resp[r].actual_file[1] = tmpdir[r]
              /\ \A i \in 1..Len(FileOf(r)) : FileOf(r)[i] = r
              /\ \A i \in 1..Len(body[r]) : body[r][i] = r

C6_Witness ==
    \E r, q \in Requests :
        /\ r # q
        /\ kind[r] = "download" /\ kind[q] = "download"
        /\ pc[r] = "streaming" /\ Len(body[r]) >= 1
        /\ pc[q] = "running" /\ listdir(tmpdir[q]) # {}

\* C7: a download whose library call raised is answered 500 with the
\* library's message in detail; one whose library call returned leaving
\* the temporary directory empty is answered 500 'Download failed - no
\* file created'; a format_id the video does not offer is answered with a
\* status >= 400; in none of these cases is a body streamed, and no
\* request gets 200 unless its library call returned.
C7_FailedDownloadIsError ==
    \A r \in Requests :
        kind[r] = "download" =>
            /\ resp[r].status = 200 => libout[r].kind = "returned"
            /\ (pc[r] = "done" /\ libout[r].kind = "raised") =>
                  /\ resp[r].status = 500
                  /\ resp[r].detail = <<"E","r","r","o","r"," ","d","o","w","n","l","o","a","d","i","n","g"," ","v","i","d","e","o",":"," ">> \o libout[r].msg
                  /\ body[r] = << >>
            /\ (pc[r] = "done" /\ libout[r].kind = "returned"
                  /\ listdir(tmpdir[r]) = {}) =>
                  /\ resp[r].status = 500
                  /\ resp[r].detail = <<"D","o","w","n","l","o","a","d"," ","f","a","i","l","e","d"," ","-"," ","n","o"," ","f","i","l","e"," ","c","r","e","a","t","e","d">>
                  /\ body[r] = << >>
            /\ (pc[r] = "done" /\ input[r].format_id \notin AvailableFormats) =>
                  /\ resp[r].status >= 400
                  /\ body[r] = << >>

C7_Witness ==
    \E r, q \in Requests :
        /\ kind[r] = "download" /\ pc[r] = "done" /\ libout[r].kind = "raised"
        /\ listdir(tmpdir[r]) # {} /\ resp[r].status = 500
        /\ kind[q] = "download" /\ pc[q] = "done" /\ libout[q].kind = "returned"
        /\ listdir(tmpdir[q]) = {} /\ resp[q].status = 500

\* C10: at most 3 library calls execute at once; a queued request starts
\* only when fewer than 3 calls are running, oldest first; while the pool
\* is full further requests are still accepted; a worker slot is given up
\* only by its own library call returning or raising, never by a timeout
\* or a cancellation.
C10_PoolBound ==
    /\ [](Cardinality(Running) <= 3)
    /\ []((Cardinality(Running) = 3 /\ \E r \in Requests : pc[r] = "idle")
            => ENABLED (\E r \in Requests, u \in PoolUrls : AcceptInfo(r, u)))
    /\ [][\A r \in Requests :
            /\ (pc[r] = "queued" /\ pc'[r] # "queued") =>
                  /\ pc'[r] = "running"
                  /\ Cardinality(Running) < 3
                  /\ r = Head(queue)
            /\ (pc[r] = "running" /\ pc'[r] # "running") =>
                  /\ pc'[r] = "returned"
                  /\ libout[r] = Pending /\ libout'[r] # Pending]_vars

C10_Witness ==
    /\ Cardinality(Running) = 3
    /\ \E r \in Requests : pc[r] = "queued" /\ queue = <<r>>
    /\ \E r \in Requests : kind[r] = "download" /\ pc[r] = "running"
    /\ \E r \in Requests : kind[r] = "info" /\ pc[r] = "running"

=============================================================================
